---- MODULE Spec2Model ----
(***************************************************************************)
(* A model of sewer's ACME client, src/sewer/ACMEclient.py.                *)
(*                                                                         *)
(* One client instance and one thread of control.  Every public method of  *)
(* ACMEclient is an operator on the client's state that yields an outcome  *)
(* (new state, exception raised or "none", value returned); the actions    *)
(* are the calls a user of the instance can make: the constructor, each    *)
(* public method on its own, and cert()/renew().  The CA's answers are the *)
(* actions' inputs.  The polling loop of check_authorization_status is     *)
(* taken one iteration at a time.                                          *)
(*                                                                         *)
(* `log` holds the network and DNS events of the call in progress (or of   *)
(* the last call, once it has ended); the history variables sentNonces,    *)
(* thumbprintCalls, validObserved and kaFirst span the instance's life.    *)
(***************************************************************************)
EXTENDS Integers, Sequences, FiniteSets, TLC

VARIABLES
    client,             \* "none" | "ready" | "failed": the constructor's outcome
    account_key,        \* self.account_key
    certificate_key,    \* self.certificate_key
    csr,                \* self.csr
    certificate_chain,  \* self.certificate_chain: the markers its body holds
    kid,                \* self.kid
    nonce,              \* CA side: how many nonces it has handed out
    op,                 \* the method the user called last
    log,                \* events of that call, in order
    result,             \* "none" | "running" | "return" | the exception raised
    ret,                \* the value returned (<<>> when nothing was)
    pc,                 \* "idle", "poll" (the loop of check_authorization_status
                        \* a user called), or the workflow's position "wf_..."
    number_of_checks,   \* local of check_authorization_status
    authorization_status, \* local of check_authorization_status (Absent: unbound)
    fetches,            \* status GETs the polling call in progress has made
    onlyPending,        \* every status it has read so far was "pending"
    wfargs,             \* the workflow's locals the steps after polling need
    happy,              \* every answer the CA gave during the call was the expected one
    sentNonces,         \* history: the nonce of every signed POST, in order
    thumbprintCalls,    \* history: number of get_keyauthorization calls
    validObserved,      \* history: some status fetch has returned "valid"
    kaFirst,            \* history: token -> what get_keyauthorization returned first
    endpoints,          \* self.ACME_*_URL: the directory keys resolved at construction
    exchange            \* the arguments and the CA's answer of the method that ran last

vars == <<client, account_key, certificate_key, csr, certificate_chain, kid, nonce, op, log, result,
          ret, pc, number_of_checks, authorization_status, fetches, onlyPending, wfargs,
          happy, sentNonces, thumbprintCalls, validObserved, kaFirst, endpoints,
          exchange>>

----------------------------------------------------------------------------
(* Bounds of the model *)

\* The CA stops the model once it has handed out this many nonces.
MaxNonce == 3

(* Program constants *)

\* maximum_number_of_checks_allowed
maximum_number_of_checks_allowed == 5

----------------------------------------------------------------------------
(* Values *)

None == "None"        \* Python's None
Absent == "absent"    \* a key a dict does not hold
NoNonce == 0 - 1

AccountKeys == {"keyA", "keyB"}
CertificateKeys == {"certkeyA", "certkeyB"}   \* what create_certificate_key may generate
Kids == {"acct1", "acct2"}
Tokens == {"tok1", "tok2"}
Statuses == {"pending", "valid", "invalid"}

\* The endpoints the directory resolves to, and the URLs of one order.
ACME_NEW_ACCOUNT_URL == "newAccount"
ACME_REVOKE_CERT_URL == "revokeCert"
ACME_NEW_ORDER_URL == "newOrder"
AuthorizationUrl == "authz"
FinalizeUrl == "finalize"
CertificateUrl == "certificate"
ChallengeUrl == "challenge"
Urls == {ACME_NEW_ACCOUNT_URL, ACME_REVOKE_CERT_URL, ACME_NEW_ORDER_URL,
         AuthorizationUrl, FinalizeUrl, CertificateUrl, ChallengeUrl}

\* The payloads make_signed_acme_request is given.
Sentinels == {"GET_CHALLENGE", "GET_CERTIFICATE"}
\* A payload json.dumps cannot serialize: a dict that holds bytes, as the
\* {"csr": self.csr} of send_csr does (create_csr returns the DER bytes).
BytesPayload == "bytes"
Payloads == Sentinels \cup {"json", BytesPayload}

----------------------------------------------------------------------------
(* Events and outcomes *)

\* One event of a call: an HTTP request, a signature, a sleep, a call of the
\* DNS collaborator.  Fields an event does not carry hold NoNonce/Absent/<<>>.
Ev(name, url) ==
    [ev |-> name, url |-> url, nonce |-> NoNonce, jwk |-> Absent,
     kid |-> Absent, ctype |-> Absent, value |-> <<>>]

Emit(s, e) == [s EXCEPT !.log = Append(@, e)]

Return(s, v) == [s |-> s, exc |-> "none", ret |-> v]
Raise(s, e) == [s |-> s, exc |-> e, ret |-> <<>>]
Ok(r) == r.exc = "none"


\* The instance state the methods read and write.
Self ==
    [kid |-> kid, nonce |-> nonce, log |-> <<>>, account_key |-> account_key,
     certificate_chain |-> certificate_chain]

----------------------------------------------------------------------------
(* Crypto and encoding, as terms: a digest is the tagged term of its input, *)
(* so that equal digests mean equal inputs.                                 *)

\* The public JWK {"kty","e","n"} of an account key (lines 270-284).
PublicJwk(key) == CASE key = "keyA" -> "jwkA" [] key = "keyB" -> "jwkB"

\* create_csr: the request for the instance's names, signed with the
\* certificate key.
create_csr(key) == <<"csr", key>>

\* calculate_safe_base64(hashlib.sha256(x).digest())
Sha256B64(x) == <<"sha256", x>>

----------------------------------------------------------------------------
(* The request layer *)

\* get_nonce handing back the nonce of the previous response instead of
\* fetching one.
get_nonce_reused(s) ==
    IF s.nonce = 0
    THEN Return(Emit([s EXCEPT !.nonce = 1],
                     [Ev("get_nonce", "newNonce") EXCEPT !.nonce = 0]),
                0)
    ELSE Return(Emit(s, [Ev("get_nonce", "newNonce") EXCEPT !.nonce = s.nonce - 1]),
                s.nonce - 1)

\* get_nonce: GET newNonce; the CA never hands out a nonce twice.
get_nonce(s) ==
    Return(Emit([s EXCEPT !.nonce = @ + 1],
                [Ev("get_nonce", "newNonce") EXCEPT !.nonce = s.nonce]),
           s.nonce)

\* get_acme_header with the revoke-cert URL left out of the jwk list.
get_acme_header_no_revoke(s, url) ==
    LET n == get_nonce(s)
        header == [alg |-> "RS256", nonce |-> n.ret, url |-> url,
                   jwk |-> Absent, kid |-> Absent]
        s1 == Emit(n.s, Ev("get_acme_header", url))
    IN  IF url \in {ACME_NEW_ACCOUNT_URL, "GET_THUMBPRINT"}
        THEN Return(s1, [header EXCEPT !.jwk = PublicJwk(s.account_key)])
        ELSE Return(s1, [header EXCEPT !.kid = s.kid])

\* get_acme_header: alg, a fresh nonce, url, and jwk or kid by the URL.
get_acme_header(s, url) ==
    LET n == get_nonce(s)
        header == [alg |-> "RS256", nonce |-> n.ret, url |-> url,
                   jwk |-> Absent, kid |-> Absent]
        s1 == Emit(n.s, Ev("get_acme_header", url))
    IN  IF url \in {ACME_NEW_ACCOUNT_URL, ACME_REVOKE_CERT_URL, "GET_THUMBPRINT"}
        THEN Return(s1, [header EXCEPT !.jwk = PublicJwk(s.account_key)])
        ELSE Return(s1, [header EXCEPT !.kid = s.kid])

\* make_signed_acme_request with GET_CHALLENGE as its only sentinel.
make_signed_acme_request_one_sentinel(s, url, payload) ==
    IF payload = "GET_CHALLENGE"
    THEN Return(Emit(s, Ev("GET", url)), <<>>)
    ELSE IF payload = BytesPayload THEN Raise(s, "TypeError")
    ELSE LET h == get_acme_header(s, url)
             s1 == Emit(h.s, [Ev("sign_message", url) EXCEPT !.nonce = h.ret.nonce])
             s2 == Emit(s1, Ev("json.dumps", url))
         IN  Return(Emit(s2, [Ev("POST", url) EXCEPT
                                 !.nonce = h.ret.nonce,
                                 !.jwk = h.ret.jwk,
                                 !.kid = h.ret.kid]),
                    <<>>)

\* make_signed_acme_request: a sentinel payload is a plain GET; any other is
\* nonce, header, signature, envelope, POST.  The response is the caller's input.
\* json.dumps(payload) comes first and raises TypeError on a payload that
\* holds bytes.  Both requests are sent with headers = {'User-Agent': ...} and
\* nothing else, so the events carry no content type.
make_signed_acme_request(s, url, payload) ==
    IF payload \in Sentinels
    THEN Return(Emit(s, Ev("GET", url)), <<>>)
    ELSE IF payload = BytesPayload THEN Raise(s, "TypeError")
    ELSE LET h == get_acme_header(s, url)
             s1 == Emit(h.s, [Ev("sign_message", url) EXCEPT !.nonce = h.ret.nonce])
             s2 == Emit(s1, Ev("json.dumps", url))
         IN  Return(Emit(s2, [Ev("POST", url) EXCEPT
                                 !.nonce = h.ret.nonce,
                                 !.jwk = h.ret.jwk,
                                 !.kid = h.ret.kid]),
                    <<>>)

----------------------------------------------------------------------------
(* The steps of the order workflow *)

\* What the CA may answer to newAccount: a status and a Location header.
RegisterResponses == [status : {201, 409, 400}, location : Kids \cup {Absent}]

\* acme_register taking 201 alone for success.
acme_register_created_only(s, resp) ==
    LET r == make_signed_acme_request(s, ACME_NEW_ACCOUNT_URL, "json")
    IN  IF resp.status # 201 THEN Raise(r.s, "ValueError")
        ELSE IF resp.location = Absent THEN Raise(r.s, "KeyError")
        ELSE Return([r.s EXCEPT !.kid = resp.location], <<>>)

\* acme_register: POST newAccount; 201 or 409, then kid = headers['Location'].
acme_register(s, resp) ==
    LET r == make_signed_acme_request(s, ACME_NEW_ACCOUNT_URL, "json")
    IN  IF resp.status \notin {201, 409} THEN Raise(r.s, "ValueError")
        ELSE IF resp.location = Absent THEN Raise(r.s, "KeyError")
        ELSE Return([r.s EXCEPT !.kid = resp.location], <<>>)

OrderStatuses == {201, 403}

\* apply_for_cert_issuance: POST newOrder; 201 expected.  Its return statement
\* names finalize_url, which nothing binds (the URL was assigned to `finalize`),
\* so the method raises NameError where it should return.
apply_for_cert_issuance(s, status) ==
    LET r == make_signed_acme_request(s, ACME_NEW_ORDER_URL, "json")
    IN  IF status # 201 THEN Raise(r.s, "ValueError")
        ELSE Raise(r.s, "NameError")

\* The challenges an authorization may offer.
Challenge(type, token) == [type |-> type, token |-> token, url |-> ChallengeUrl]
ChallengeLists ==
    { <<>>,
      <<Challenge("http-01", "tok2")>>,
      <<Challenge("dns-01", "tok1")>>,
      <<Challenge("http-01", "tok2"), Challenge("dns-01", "tok1")>>,
      <<Challenge("dns-01", "tok1"), Challenge("dns-01", "tok2")>> }
ChallengeResponses == [status : {200, 404}, challenges : ChallengeLists]

\* The loop of get_challenge: the last dns-01 entry, if any.
RECURSIVE LastDns(_, _)
LastDns(challenges, found) ==
    IF challenges = <<>> THEN found
    ELSE LastDns(Tail(challenges),
                 IF Head(challenges).type = "dns-01"
                 THEN <<Head(challenges)>> ELSE found)

\* get_challenge taking the last challenge offered, whatever its type.
get_challenge_any_type(s, url, resp) ==
    LET r == make_signed_acme_request(s, url, "GET_CHALLENGE")
        n == Len(resp.challenges)
    IN  IF resp.status # 200 THEN Raise(r.s, "ValueError")
        ELSE IF n = 0 THEN Raise(r.s, "UnboundLocalError")
        ELSE Return(r.s, <<resp.challenges[n].token, resp.challenges[n].url>>)

\* get_challenge: plain GET of the authorization; 200 expected.
get_challenge(s, url, resp) ==
    LET r == make_signed_acme_request(s, url, "GET_CHALLENGE")
        dns_challenge == LastDns(resp.challenges, <<>>)
    IN  IF resp.status # 200 THEN Raise(r.s, "ValueError")
        ELSE IF dns_challenge = <<>> THEN Raise(r.s, "UnboundLocalError")
        ELSE Return(r.s, <<dns_challenge[1].token, dns_challenge[1].url>>)

\* get_keyauthorization hashing the whole protected header, nonce included.
get_keyauthorization_of_header(s, dns_token) ==
    LET h == get_acme_header(s, "GET_THUMBPRINT")
        acme_keyauthorization ==
            <<dns_token, Sha256B64(<<h.ret.jwk, h.ret.nonce>>)>>
        out == <<acme_keyauthorization, Sha256B64(acme_keyauthorization)>>
    IN  Return(Emit(h.s, [Ev("keyauthorization", dns_token) EXCEPT
                                 !.value = out,
                                 !.nonce = h.ret.nonce,
                                 !.kid = s.kid]),
               out)

\* get_keyauthorization: token "." thumbprint of the public JWK, and its digest.
\* The JWK is taken from a protected header built for the pseudo-URL
\* "GET_THUMBPRINT", which fetches a nonce.  The "keyauthorization" event
\* records what the call returned, and the nonce and kid it ran under.
get_keyauthorization(s, dns_token) ==
    LET h == get_acme_header(s, "GET_THUMBPRINT")
        acme_thumbprint == Sha256B64(<<h.ret.jwk>>)
        acme_keyauthorization == <<dns_token, acme_thumbprint>>
        out == <<acme_keyauthorization, Sha256B64(acme_keyauthorization)>>
    IN  Return(Emit(h.s, [Ev("keyauthorization", dns_token) EXCEPT
                                 !.value = out,
                                 !.nonce = h.ret.nonce,
                                 !.kid = s.kid]),
               out)

\* self.dns_class.create_dns_record(self.domain_name, value)
create_dns_record(s, value) ==
    Return(Emit(s, [Ev("create_dns_record", "domain_name") EXCEPT !.value = value]),
           <<>>)

FinalizeStatuses == {200, 403}

\* send_csr: POST {"csr": self.csr} to the finalize URL; 200 expected.  The
\* payload holds the bytes create_csr returned, so the request is never built.
send_csr(s, finalize_url, status) ==
    LET r == make_signed_acme_request(s, finalize_url, BytesPayload)
    IN  IF ~Ok(r) THEN r
        ELSE IF status # 200 THEN Raise(r.s, "ValueError")
        ELSE Return(r.s, <<>>)

\* respond_to_challenge: POST {keyAuthorization}; any response is accepted; the
\* return statement names respond_to_challenge, which no scope of the method
\* binds.
respond_to_challenge(s, acme_keyauthorization, dns_challenge_url) ==
    LET r == make_signed_acme_request(s, dns_challenge_url, "json")
    IN  Raise(r.s, "NameError")

CertificateStatuses == {200, 404}

\* get_certificate: plain GET; 200 expected; then .encode() of the bytes body.
get_certificate(s, certificate_url, status) ==
    LET r == make_signed_acme_request(s, certificate_url, "GET_CERTIFICATE")
    IN  IF status # 200 THEN Raise(r.s, "ValueError")
        ELSE Raise(r.s, "AttributeError")

----------------------------------------------------------------------------
(* check_authorization_status, one loop iteration at a time *)

\* What one status fetch may meet: a status, requests.get raising, or a body
\* without 'status'.
PollAnswers == Statuses \cup {"get_raised", "no_status"}

\* self.dns_class.delete_dns_record(domain_name, value), as written at both
\* cleanup sites: domain_name is neither a parameter nor a local nor a global,
\* so evaluating the arguments raises NameError before the collaborator is
\* called.
delete_dns_record(s, value) == Raise(s, "NameError")

\* The outcome of an iteration that neither raised nor left the loop.
Loop(s, n) == Return(s, [more |-> TRUE, n |-> n])

\* `break`, then the return of check_authorization_status_response, which is
\* unbound when the very first requests.get raised.
Break(s, n, bound) ==
    IF bound THEN Return(s, [more |-> FALSE, n |-> n])
    ELSE Raise(s, "UnboundLocalError")

\* except Exception: log, clean up, break.
ExceptCleanup(s, n, value, bound) ==
    LET d == delete_dns_record(s, value)
    IN  IF Ok(d) THEN Break(d.s, n, bound) ELSE d

\* The loop body without its budget test.
check_iteration_unbudgeted(s, n, url, value, answer) ==
    LET s1 == Emit(s, Ev("GET", url))
        slept == Emit(s1, Ev("sleep", "ACME_CHALLENGE_WAIT_PERIOD"))
    IN  IF answer = "get_raised" THEN ExceptCleanup(s1, n, value, n >= 1)
        ELSE IF answer = "no_status" THEN ExceptCleanup(s1, n, value, TRUE)
        ELSE IF answer = "pending" THEN Loop(slept, n + 1)
        ELSE IF answer = "valid"
             THEN LET d == delete_dns_record(s1, value)
                  IN  IF Ok(d) THEN Break(d.s, n + 1, TRUE) ELSE d
        ELSE Loop(slept, n + 1)

\* The loop body: fetch the authorization, count, test the budget (the
\* StopIteration it raises is caught by its own except clause), then act on the
\* status.
check_iteration(s, n, url, value, answer) ==
    LET s1 == Emit(s, Ev("GET", url))
        slept == Emit(s1, Ev("sleep", "ACME_CHALLENGE_WAIT_PERIOD"))
    IN  IF answer = "get_raised" THEN ExceptCleanup(s1, n, value, n >= 1)
        ELSE IF answer = "no_status" THEN ExceptCleanup(s1, n, value, TRUE)
        ELSE IF n + 1 > maximum_number_of_checks_allowed
             THEN ExceptCleanup(s1, n + 1, value, TRUE)
        ELSE IF answer = "pending" THEN Loop(slept, n + 1)
        ELSE IF answer = "valid"
             THEN LET d == delete_dns_record(s1, value)
                  IN  IF Ok(d) THEN Break(d.s, n + 1, TRUE) ELSE d
        ELSE Loop(slept, n + 1)

----------------------------------------------------------------------------
(* Construction *)

\* The keys __init__ reads from the directory's JSON body.
RequiredKeys ==
    {"newNonce", "meta.termsOfService", "keyChange", "newAccount", "newOrder",
     "revokeCert"}

\* The bodies a directory may answer with: every key, or all but one.
DirectoryBodies == {RequiredKeys} \cup {RequiredKeys \ {k} : k \in RequiredKeys}
DirectoryResponses == [status : {200, 201, 404}, keys : DirectoryBodies]
NoEndpoints == [k \in RequiredKeys |-> Absent]
ChainResponses == [status : {200, 201, 404}, begin : BOOLEAN, end : BOOLEAN]
NoChain == [begin |-> FALSE, end |-> FALSE]

\* The directory taken on its status alone, a key the body lacks left unset.
get_acme_endpoints_status_only(s, resp) ==
    LET s1 == Emit(s, Ev("GET", "directory"))
    IN  IF resp.status \notin {200, 201} THEN Raise(s1, "ValueError")
        ELSE Return(s1, [k \in RequiredKeys |->
                            IF k \in resp.keys THEN k ELSE Absent])

\* get_acme_endpoints and the six subscripts of its JSON body.
get_acme_endpoints(s, resp) ==
    LET s1 == Emit(s, Ev("GET", "directory"))
    IN  IF resp.status \notin {200, 201} THEN Raise(s1, "ValueError")
        ELSE IF \E k \in RequiredKeys : k \notin resp.keys THEN Raise(s1, "KeyError")
        ELSE Return(s1, [k \in RequiredKeys |-> k])

\* get_certificate_chain: 200/201 expected; the marker test is
\*   b'-----BEGIN CERTIFICATE-----' and b'-----END CERTIFICATE-----' not in content
\* where `not in` binds tighter than `and` and the left operand is a non-empty
\* bytes literal (true): the test is `END marker not in content`.
get_certificate_chain(s, resp) ==
    LET s1 == Emit(s, Ev("GET", "chain"))
    IN  IF resp.status \notin {200, 201} THEN Raise(s1, "ValueError")
        ELSE IF TRUE /\ ~resp.end THEN Raise(s1, "ValueError")
        ELSE Return(s1, [begin |-> resp.begin, end |-> resp.end])

----------------------------------------------------------------------------
(* History *)

IsPost(e) == e.ev = "POST"
IsThumbprintHeader(e) == e.ev = "get_acme_header" /\ e.url = "GET_THUMBPRINT"
IsKeyauthorization(e) == e.ev = "keyauthorization"

\* The nonces of the signed POSTs of a call, in order.
PostNonces(l) ==
    LET posts == SelectSeq(l, IsPost)
    IN  [i \in 1..Len(posts) |-> posts[i].nonce]

NoKa == [set |-> FALSE, value |-> <<>>, nonce |-> NoNonce, kid |-> Absent]

\* kaFirst after the get_keyauthorization returns recorded in l.
RECURSIVE RecordFirst(_, _)
RecordFirst(first, l) ==
    IF l = <<>> THEN first
    ELSE LET e == Head(l)
         IN  RecordFirst(IF IsKeyauthorization(e) /\ ~first[e.url].set
                         THEN [first EXCEPT ![e.url] =
                                  [set |-> TRUE, value |-> e.value,
                                   nonce |-> e.nonce, kid |-> e.kid]]
                         ELSE first,
                         Tail(l))

\* The history variables, brought up to date with a call's events.
History(l) ==
    /\ sentNonces' = sentNonces \o PostNonces(l)
    /\ thumbprintCalls' = thumbprintCalls + Len(SelectSeq(l, IsThumbprintHeader))
    /\ kaFirst' = RecordFirst(kaFirst, l)

----------------------------------------------------------------------------
(* The calls *)

\* What `exchange` holds when the method that ran last took no answer.
NoExchange ==
    [step |-> "none", url |-> Absent, payload |-> Absent, status |-> 0,
     location |-> Absent, challenges |-> <<>>, answer |-> Absent, keys |-> {}]

\* The workflow's locals.
NoArgs ==
    [authorization_url |-> Absent, finalize_url |-> Absent,
     certificate_url |-> Absent, dns_token |-> Absent,
     dns_challenge_url |-> Absent, acme_keyauthorization |-> <<>>,
     value |-> <<>>]

\* A method may be called by the user when no call is in progress (one that
\* signs, while the CA still has nonces), or by the workflow at position p.
At(p, signs) ==
    /\ client = "ready"
    /\ \/ pc = p /\ p # "idle"
       \/ pc = "idle" /\ (signs => nonce < MaxNonce)

InWorkflow == pc # "idle"

\* The instance as the method finds it: a user's call starts a new log.
Cur == [Self EXCEPT !.log = IF pc = "idle" THEN <<>> ELSE log]

\* The answers the success path expects of the CA.
ExpectedRegister(resp) == resp.status = 201 /\ resp.location # Absent
ExpectedChallenge(resp) == resp.status = 200 /\ LastDns(resp.challenges, <<>>) # <<>>
ExpectedChain(resp) == resp.status \in {200, 201} /\ resp.begin /\ resp.end

\* The call `name` ends with outcome r; h: the CA's answers were the expected
\* ones.
End(name, r, h) ==
    /\ op' = name
    /\ happy' = h
    /\ kid' = r.s.kid
    /\ nonce' = r.s.nonce
    /\ log' = r.s.log
    /\ result' = IF Ok(r) THEN "return" ELSE r.exc
    /\ ret' = r.ret
    /\ pc' = "idle"
    /\ wfargs' = NoArgs
    /\ History(r.s.log)
    /\ UNCHANGED <<client, account_key, certificate_chain>>

\* The workflow goes on to position p with locals args.
Advance(r, h, p, args) ==
    /\ happy' = h
    /\ kid' = r.s.kid
    /\ nonce' = r.s.nonce
    /\ log' = r.s.log
    /\ pc' = p
    /\ wfargs' = args
    /\ UNCHANGED <<client, account_key, certificate_chain, op, result, ret,
                   sentNonces, thumbprintCalls, kaFirst>>

\* A method has run with outcome r: called by the user, the call ends; called
\* by the workflow, an exception ends cert()/renew() and a return moves it on.
Step(name, r, h, p, args) ==
    IF ~InWorkflow THEN End(name, r, h)
    ELSE IF Ok(r) THEN Advance(r, happy /\ h, p, args)
    ELSE End(op, r, happy /\ h)

\* Outside the polling loop its locals are not live.
NoPoll ==
    /\ number_of_checks' = 0
    /\ authorization_status' = Absent
    /\ fetches' = 0
    /\ onlyPending' = TRUE
    /\ UNCHANGED validObserved

\* ACMEclient(...): the directory, kid = None, the keys and CSR, the chain.
ACMEclient_init ==
    /\ client # "ready"
    /\ \E dir \in DirectoryResponses, chain \in ChainResponses, key \in AccountKeys,
          ckey \in CertificateKeys :
         LET s0 == [kid |-> None, nonce |-> nonce, log |-> <<>>,
                    account_key |-> key, certificate_chain |-> NoChain]
             r1 == get_acme_endpoints(s0, dir)
             r2 == get_certificate_chain(r1.s, chain)
             r == IF Ok(r1) THEN r2 ELSE r1
         IN  /\ client' = IF Ok(r) THEN "ready" ELSE "failed"
             /\ account_key' = IF Ok(r) THEN key ELSE account_key
             /\ certificate_key' = IF Ok(r) THEN ckey ELSE certificate_key
             /\ csr' = IF Ok(r) THEN create_csr(ckey) ELSE csr
             /\ certificate_chain' = IF Ok(r) THEN r2.ret ELSE NoChain
             /\ kid' = None
             /\ op' = "__init__"
             /\ log' = r.s.log
             /\ result' = IF Ok(r) THEN "return" ELSE r.exc
             /\ ret' = <<>>
             /\ happy' = (dir.status \in {200, 201} /\ dir.keys = RequiredKeys
                          /\ (Ok(r1) => ExpectedChain(chain)))
             /\ endpoints' = IF Ok(r) THEN r1.ret ELSE NoEndpoints
             /\ exchange' = [NoExchange EXCEPT !.step = "__init__",
                                               !.status = dir.status,
                                               !.keys = dir.keys]
    /\ UNCHANGED <<nonce, pc, wfargs, sentNonces, thumbprintCalls, kaFirst>>
    /\ NoPoll

\* just_get_me_a_certificate provisioning the TXT record before it registers.
just_get_me_a_certificate_provisioning_first(name) ==
    /\ At("idle", TRUE)
    /\ op' = name
    /\ happy' = TRUE
    /\ log' = create_dns_record(Cur, get_keyauthorization(Self, "tok1").ret[2]).s.log
    /\ result' = "running"
    /\ ret' = <<>>
    /\ pc' = "wf_register"
    /\ wfargs' = NoArgs
    /\ exchange' = NoExchange
    /\ UNCHANGED <<client, account_key, certificate_chain, kid, nonce,
                   sentNonces, thumbprintCalls, kaFirst, endpoints,
                   certificate_key, csr>>
    /\ NoPoll

\* cert() and renew(): both are just_get_me_a_certificate, whose steps follow
\* one another through pc.
just_get_me_a_certificate(name) ==
    /\ At("idle", TRUE)
    /\ op' = name
    /\ happy' = TRUE
    /\ log' = <<>>
    /\ result' = "running"
    /\ ret' = <<>>
    /\ pc' = "wf_register"
    /\ wfargs' = NoArgs
    /\ exchange' = NoExchange
    /\ UNCHANGED <<client, account_key, certificate_chain, kid, nonce,
                   sentNonces, thumbprintCalls, kaFirst, endpoints,
                   certificate_key, csr>>
    /\ NoPoll

Cert == just_get_me_a_certificate("cert")

Renew == just_get_me_a_certificate("renew")

\* self.acme_register()
AcmeRegister ==
    /\ At("wf_register", TRUE)
    /\ \E resp \in RegisterResponses :
         /\ Step("acme_register", acme_register(Cur, resp), ExpectedRegister(resp),
                 "wf_apply", wfargs)
         /\ exchange' = [NoExchange EXCEPT !.step = "acme_register",
                                           !.url = ACME_NEW_ACCOUNT_URL,
                                           !.status = resp.status,
                                           !.location = resp.location]
    /\ UNCHANGED <<endpoints, certificate_key, csr>>
    /\ NoPoll

\* authorization_url, finalize_url, certificate_url = self.apply_for_cert_issuance()
ApplyForCertIssuance ==
    /\ At("wf_apply", TRUE)
    /\ \E status \in OrderStatuses :
         LET r == apply_for_cert_issuance(Cur, status)
         IN  /\ exchange' = [NoExchange EXCEPT !.step = "apply_for_cert_issuance",
                                               !.url = ACME_NEW_ORDER_URL,
                                               !.status = status]
             /\ UNCHANGED <<endpoints, certificate_key, csr>>
             /\ IF InWorkflow /\ Ok(r) /\ Len(r.ret) # 3
                THEN End(op, Raise(r.s, "ValueError"), happy /\ status = 201)
                ELSE Step("apply_for_cert_issuance", r, status = 201,
                          "wf_challenge",
                          [wfargs EXCEPT !.authorization_url = r.ret[1],
                                         !.finalize_url = r.ret[2],
                                         !.certificate_url = r.ret[3]])
    /\ NoPoll

\* dns_token, dns_challenge_url = self.get_challenge(url=authorization_url)
GetChallenge ==
    /\ At("wf_challenge", FALSE)
    /\ \E resp \in ChallengeResponses :
         LET url == IF InWorkflow THEN wfargs.authorization_url ELSE AuthorizationUrl
             r == get_challenge(Cur, url, resp)
         IN  /\ Step("get_challenge", r, ExpectedChallenge(resp),
                     "wf_keyauthorization",
                     [wfargs EXCEPT !.dns_token = r.ret[1],
                                    !.dns_challenge_url = r.ret[2]])
             /\ exchange' = [NoExchange EXCEPT !.step = "get_challenge",
                                               !.url = url,
                                               !.status = resp.status,
                                               !.challenges = resp.challenges]
    /\ UNCHANGED <<endpoints, certificate_key, csr>>
    /\ NoPoll

\* get_keyauthorization(dns_token); in the workflow, create_dns_record follows
\* with the digest it returned.
GetKeyauthorization ==
    /\ At("wf_keyauthorization", TRUE)
    /\ \E token \in IF InWorkflow THEN {wfargs.dns_token} ELSE Tokens :
         LET r == get_keyauthorization(Cur, token)
         IN  /\ exchange' = [NoExchange EXCEPT !.step = "get_keyauthorization"]
             /\ UNCHANGED <<endpoints, certificate_key, csr>>
             /\ IF InWorkflow
                THEN Advance(create_dns_record(r.s, r.ret[2]), happy,
                             "wf_send_csr",
                             [wfargs EXCEPT !.acme_keyauthorization = r.ret[1],
                                            !.value = r.ret[2]])
                ELSE End("get_keyauthorization", r, TRUE)
    /\ NoPoll

\* self.send_csr(finalize_url)
SendCsr ==
    /\ At("wf_send_csr", TRUE)
    /\ \E status \in FinalizeStatuses :
         LET url == IF InWorkflow THEN wfargs.finalize_url ELSE FinalizeUrl
         IN  /\ Step("send_csr", send_csr(Cur, url, status), status = 200,
                     "wf_respond", wfargs)
             /\ exchange' = [NoExchange EXCEPT
                               !.step = "send_csr",
                               !.url = url,
                               !.payload = BytesPayload,
                               !.status = IF Ok(send_csr(Cur, url, status))
                                             \/ send_csr(Cur, url, status).exc
                                                  = "ValueError"
                                          THEN status ELSE 0]
    /\ UNCHANGED <<endpoints, certificate_key, csr>>
    /\ NoPoll

\* self.respond_to_challenge(acme_keyauthorization, dns_challenge_url)
RespondToChallenge ==
    /\ At("wf_respond", TRUE)
    /\ LET ka == IF InWorkflow THEN wfargs.acme_keyauthorization
                 ELSE get_keyauthorization(Self, "tok1").ret[1]
           url == IF InWorkflow THEN wfargs.dns_challenge_url ELSE ChallengeUrl
       IN  /\ Step("respond_to_challenge", respond_to_challenge(Cur, ka, url), TRUE,
                   "wf_check", wfargs)
           /\ exchange' = [NoExchange EXCEPT !.step = "respond_to_challenge",
                                             !.url = url]
    /\ UNCHANGED <<endpoints, certificate_key, csr>>
    /\ NoPoll

\* check_authorization_status(authorization_url, base64_of_acme_keyauthorization)
\* up to its loop: the initial wait, the counter.  A user's call hands it the
\* value of the TXT record to tear down.
CheckAuthorizationStatus ==
    /\ At("wf_check", FALSE)
    /\ op' = IF InWorkflow THEN op ELSE "check_authorization_status"
    /\ happy' = (InWorkflow => happy)
    /\ log' = Append(Cur.log, Ev("sleep", "ACME_CHALLENGE_WAIT_PERIOD"))
    /\ result' = "running"
    /\ ret' = <<>>
    /\ pc' = IF InWorkflow THEN "wf_poll" ELSE "poll"
    /\ wfargs' = IF InWorkflow THEN wfargs
                 ELSE [NoArgs EXCEPT
                          !.authorization_url = AuthorizationUrl,
                          !.value = get_keyauthorization(Self, "tok1").ret[2]]
    /\ number_of_checks' = 0
    /\ authorization_status' = Absent
    /\ fetches' = 0
    /\ onlyPending' = TRUE
    /\ exchange' = [NoExchange EXCEPT !.step = "check_authorization_status",
                                      !.url = AuthorizationUrl]
    /\ UNCHANGED <<client, account_key, certificate_chain, kid, nonce,
                   sentNonces, thumbprintCalls, validObserved, kaFirst, endpoints,
                   certificate_key, csr>>

\* One iteration of the loop of check_authorization_status.  When the loop is
\* left without an exception the method returns, to the user or to the
\* workflow.
PollIteration ==
    /\ client = "ready" /\ pc \in {"poll", "wf_poll"}
    /\ \E answer \in PollAnswers :
         LET r == check_iteration(Cur, number_of_checks, wfargs.authorization_url,
                                  wfargs.value, answer)
             first == answer = "valid" /\ fetches = 0
         IN  /\ exchange' = [NoExchange EXCEPT !.step = "check_authorization_status",
                                               !.url = wfargs.authorization_url,
                                               !.answer = answer]
             /\ UNCHANGED <<endpoints, certificate_key, csr>>
             /\ fetches' = fetches + 1
             /\ onlyPending' = (onlyPending /\ answer = "pending")
             /\ validObserved' =
                    (validObserved
                       \/ (answer = "valid"
                           /\ number_of_checks < maximum_number_of_checks_allowed))
             /\ number_of_checks' =
                    IF answer \in Statuses THEN number_of_checks + 1
                    ELSE number_of_checks
             /\ authorization_status' =
                    IF answer \in Statuses THEN answer ELSE authorization_status
             /\ IF ~Ok(r) THEN End(op, r, happy /\ first)
                ELSE IF r.ret.more THEN Advance(r, happy /\ first, pc, wfargs)
                ELSE IF pc = "wf_poll"
                THEN Advance(r, happy /\ first, "wf_certificate", wfargs)
                ELSE End(op, Return(r.s, <<>>), happy /\ first)

\* certificate = self.get_certificate(certificate_url); return certificate
GetCertificate ==
    /\ At("wf_certificate", FALSE)
    /\ \E status \in CertificateStatuses :
         LET url == IF InWorkflow THEN wfargs.certificate_url ELSE CertificateUrl
             r == get_certificate(Cur, url, status)
         IN  /\ IF InWorkflow THEN End(op, r, happy /\ status = 200)
                ELSE End("get_certificate", r, status = 200)
             /\ exchange' = [NoExchange EXCEPT !.step = "get_certificate",
                                               !.url = url,
                                               !.status = status]
    /\ UNCHANGED <<endpoints, certificate_key, csr>>
    /\ NoPoll

\* make_signed_acme_request(url, payload), called by the user.
MakeSignedAcmeRequest ==
    /\ At("idle", TRUE)
    /\ \E url \in Urls, payload \in Payloads :
         /\ End("make_signed_acme_request",
                make_signed_acme_request(Cur, url, payload), TRUE)
         /\ exchange' = [NoExchange EXCEPT !.step = "make_signed_acme_request",
                                           !.url = url,
                                           !.payload = payload]
    /\ UNCHANGED <<endpoints, certificate_key, csr>>
    /\ NoPoll

----------------------------------------------------------------------------
(* The specification *)

Init ==
    /\ client = "none"
    /\ account_key = None
    /\ certificate_key = None
    /\ csr = <<>>
    /\ certificate_chain = NoChain
    /\ kid = None
    /\ nonce = 0
    /\ op = "none"
    /\ log = <<>>
    /\ result = "none"
    /\ ret = <<>>
    /\ pc = "idle"
    /\ number_of_checks = 0
    /\ authorization_status = Absent
    /\ fetches = 0
    /\ onlyPending = TRUE
    /\ wfargs = NoArgs
    /\ sentNonces = <<>>
    /\ thumbprintCalls = 0
    /\ validObserved = FALSE
    /\ happy = TRUE
    /\ kaFirst = [t \in Tokens |-> NoKa]
    /\ endpoints = NoEndpoints
    /\ exchange = NoExchange

Next ==
    \/ ACMEclient_init
    \/ AcmeRegister
    \/ ApplyForCertIssuance
    \/ GetChallenge
    \/ GetKeyauthorization
    \/ SendCsr
    \/ RespondToChallenge
    \/ CheckAuthorizationStatus
    \/ PollIteration
    \/ GetCertificate
    \/ MakeSignedAcmeRequest
    \/ Cert
    \/ Renew

Spec == Init /\ [][Next]_vars

\* A call of check_authorization_status that has entered its loop keeps
\* running: every requests.get has a timeout and every sleep is finite, so the
\* next iteration is always taken.
SpecPolling == Spec /\ WF_vars(PollIteration)

----------------------------------------------------------------------------
(* Properties *)

\* No call is in progress and the last one has ended.
Ended == pc = "idle" /\ result \notin {"none", "running"}

\* The last call was cert() or renew().
Workflow == op \in {"cert", "renew"}

\* The events a step of the model adds to the log.
NewEvents == IF pc = "idle" THEN log' ELSE SubSeq(log', Len(log) + 1, Len(log'))

Has(l, Test(_)) == \E i \in DOMAIN l : Test(l[i])

IsFinalizePost(e) == e.ev = "POST" /\ e.url = FinalizeUrl
IsCertificateGet(e) == e.ev = "GET" /\ e.url = CertificateUrl
IsCreate(e) == e.ev = "create_dns_record"
IsDelete(e) == e.ev = "delete_dns_record"
IsStep(e) == e.ev \in {"POST", "GET", "keyauthorization", "create_dns_record"}

\* The workflow steps a log shows, in order.
Steps(l) ==
    LET sel == SelectSeq(l, IsStep)
    IN  [i \in 1..Len(sel) |->
            <<sel[i].ev, IF sel[i].ev \in {"POST", "GET"} THEN sel[i].url ELSE "-">>]

HappySteps ==
    << <<"POST", ACME_NEW_ACCOUNT_URL>>, <<"POST", ACME_NEW_ORDER_URL>>,
       <<"GET", AuthorizationUrl>>, <<"keyauthorization", "-">>,
       <<"create_dns_record", "-">>, <<"POST", FinalizeUrl>>,
       <<"POST", ChallengeUrl>>, <<"GET", AuthorizationUrl>>,
       <<"GET", CertificateUrl>> >>

\* C1: when every answer of the CA is the expected one, cert()/renew() takes
\* the steps register, order, challenge, key authorization, create_dns_record,
\* send_csr, respond_to_challenge, status check, get_certificate in that order
\* and ends by returning the certificate, not in an error.
C1_HappyPathReturnsCertificate ==
    (Workflow /\ Ended /\ happy) =>
        (result = "return" /\ Steps(log) = HappySteps)

HandedRecord == Has(log, IsCreate) \/ op = "check_authorization_status"

C4_AlwaysPendingFiveChecks ==
    (Ended /\ fetches > 0 /\ onlyPending) =>
        /\ fetches = maximum_number_of_checks_allowed
        /\ result # "return"
        /\ Len(SelectSeq(log, IsDelete)) = 1

\* The loop is left in this step, and not by acting on the status "valid".
PollingEndsWithoutValid ==
    /\ pc \in {"poll", "wf_poll"}
    /\ pc' \notin {"poll", "wf_poll"}
    /\ ~(authorization_status' = "valid"
         /\ number_of_checks' <= maximum_number_of_checks_allowed)

Distinct(seq) == \A i, j \in DOMAIN seq : i # j => seq[i] # seq[j]

\* Every signed POST of the log comes right after its own nonce fetch, header,
\* signature and envelope.
FetchedJustBefore(l) ==
    \A i \in DOMAIN l :
        l[i].ev = "POST" =>
            /\ i >= 5
            /\ l[i - 4].ev = "get_nonce" /\ l[i - 4].nonce = l[i].nonce
            /\ l[i - 3].ev = "get_acme_header"
            /\ l[i - 2].ev = "sign_message" /\ l[i - 2].nonce = l[i].nonce
            /\ l[i - 1].ev = "json.dumps"

\* C6 as claimed: N signed requests take exactly N nonce fetches, each right
\* before its request is signed, no nonce is sent twice, and no nonce is
\* fetched for anything but a signed request.
C6_OneFetchPerSignedRequest ==
    pc = "idle" =>
        /\ nonce = Len(sentNonces)
        /\ Distinct(sentNonces)
        /\ FetchedJustBefore(log)

\* C6 as amended: every signed request fetches its own nonce right before it
\* is signed and no nonce is sent twice; the nonce fetches are the N of the
\* signed requests plus one per get_keyauthorization call, whose nonce is
\* never sent.
C6_NonceFreshness ==
    pc = "idle" =>
        /\ nonce = Len(sentNonces) + thumbprintCalls
        /\ Distinct(sentNonces)
        /\ FetchedJustBefore(log)

C6_Witness ==
    /\ pc = "idle"
    /\ Len(sentNonces) >= 2
    /\ thumbprintCalls >= 1
    /\ Has(log, IsPost)

\* C7: a signed request to the new-account or the revoke-cert URL carries jwk
\* and no kid; a signed request to any other URL carries kid and no jwk.
C7_JwkOrKid ==
    \A i \in DOMAIN log :
        log[i].ev = "POST" =>
            IF log[i].url \in {ACME_NEW_ACCOUNT_URL, ACME_REVOKE_CERT_URL}
            THEN log[i].jwk # Absent /\ log[i].kid = Absent
            ELSE log[i].kid # Absent /\ log[i].jwk = Absent

IsAccountPost(e) == e.ev = "POST" /\ e.url = ACME_NEW_ACCOUNT_URL /\ e.jwk # Absent
IsOrderPost(e) == e.ev = "POST" /\ e.url = ACME_NEW_ORDER_URL /\ e.kid \in Kids

\* cert()/renew() has sent the new-account request and then the new-order one.
C7_Witness == Workflow /\ Has(log, IsAccountPost) /\ Has(log, IsOrderPost)

\* C8: no signed request is sent with a kid header that is None, and once set
\* the kid of an instance never changes.
C8_KidSetOnceBeforeUse ==
    [][ /\ \A i \in DOMAIN NewEvents :
              NewEvents[i].ev = "POST" => NewEvents[i].kid # None
        /\ kid # None => kid' = kid ]_vars

\* C9: a constructed client holds a chain whose body has both the BEGIN and
\* the END CERTIFICATE marker.
C9_ChainHasBothMarkers ==
    client = "ready" => (certificate_chain.begin /\ certificate_chain.end)

\* C10: for the instance's account key, get_keyauthorization returns for a
\* token what it returned the first time it was called with that token,
\* whatever nonce the CA handed out and whatever kid was.
C10_KeyauthorizationDeterministic ==
    pc = "idle" =>
        \A i \in DOMAIN log :
            log[i].ev = "keyauthorization" =>
                /\ kaFirst[log[i].url].set
                /\ log[i].value = kaFirst[log[i].url].value

IsRepeatedKeyauthorization(e) ==
    /\ e.ev = "keyauthorization"
    /\ kaFirst[e.url].set
    /\ kaFirst[e.url].nonce # e.nonce
    /\ kaFirst[e.url].kid # e.kid

C10_Witness == pc = "idle" /\ Has(log, IsRepeatedKeyauthorization)

\* The method that ran last returned (to the user, or to the workflow, which
\* goes on), or raised.
MethodReturned == result \in {"return", "running"}
MethodRaised == pc = "idle" /\ result \notin {"return", "running", "none"}

\* C11: acme_register answered 201 or 409 (with a Location header) returns
\* with kid set to that Location; answered any other status it raises
\* ValueError and leaves kid as it was.
C11_RegisterAccepts201And409 ==
    [][ exchange'.step = "acme_register" =>
          /\ (exchange'.status \in {201, 409} /\ exchange'.location # Absent)
                => (MethodReturned' /\ kid' = exchange'.location)
          /\ exchange'.status \notin {201, 409}
                => (MethodRaised' /\ result' = "ValueError" /\ kid' = kid) ]_vars

\* acme_register has been answered 409 and has stored the Location.
C11_Witness ==
    /\ exchange.step = "acme_register"
    /\ exchange.status = 409
    /\ exchange.location \in Kids
    /\ kid = exchange.location
    /\ op = "acme_register" /\ result = "return"

\* What the method that ran last handed back: to the user, or to the workflow's
\* locals.
OrderUrls ==
    IF pc = "idle" THEN ret
    ELSE <<wfargs.authorization_url, wfargs.finalize_url, wfargs.certificate_url>>
ChallengeGot ==
    IF pc = "idle" THEN ret ELSE <<wfargs.dns_token, wfargs.dns_challenge_url>>

\* C12: apply_for_cert_issuance raises on any newOrder status but 201, and on
\* 201 returns the authorization URL, the finalize URL and the certificate
\* URL of the order, three values.
C12_OrderReturnsThreeUrls ==
    exchange.step = "apply_for_cert_issuance" =>
        IF exchange.status # 201 THEN MethodRaised
        ELSE /\ MethodReturned
             /\ OrderUrls = <<AuthorizationUrl, FinalizeUrl, CertificateUrl>>

IsDns01(c) == c.type = "dns-01"

\* C13: get_challenge answered 200 returns the token and URL of a dns-01
\* entry of the authorization; answered 200 without a dns-01 entry, or
\* answered another status, it raises and returns nothing.
C13_ChallengeIsDns01 ==
    exchange.step = "get_challenge" =>
        IF exchange.status = 200 /\ Has(exchange.challenges, IsDns01)
        THEN /\ MethodReturned
             /\ \E i \in DOMAIN exchange.challenges :
                    /\ IsDns01(exchange.challenges[i])
                    /\ ChallengeGot = <<exchange.challenges[i].token,
                                        exchange.challenges[i].url>>
        ELSE MethodRaised /\ ret = <<>>

\* get_challenge has picked the dns-01 entry out of an offer that starts with
\* another type, and has refused an offer without one.
C13_Witness ==
    /\ exchange.step = "get_challenge"
    /\ exchange.status = 200
    /\ Len(exchange.challenges) = 2
    /\ ~IsDns01(exchange.challenges[1])
    /\ result = "return"
    /\ ret = <<"tok1", ChallengeUrl>>

\* This step is one iteration of the polling loop; Polled is what its status
\* fetch met.
PollStep == pc \in {"poll", "wf_poll"} /\ fetches' = fetches + 1
Polled == exchange'.answer
LoopLeft == pc' \notin {"poll", "wf_poll"}
Deletes(l) == Len(SelectSeq(l, IsDelete))
IsRequest(e) == e.ev \in {"GET", "POST"}

\* C14: a fetch that returns "valid" within the budget of 5 leaves the loop
\* with delete_dns_record invoked exactly once; a fetch that returns any
\* other status does not leave the loop before the budget is used up, but
\* sleeps for another fetch; no call makes more than 5 fetches.
C14_PollingStopsOnlyOnValid ==
    [][ PollStep =>
          /\ fetches' <= maximum_number_of_checks_allowed
          /\ Polled = "valid" => (LoopLeft /\ Deletes(log') = 1)
          /\ (Polled \in Statuses \ {"valid"}
                /\ fetches' < maximum_number_of_checks_allowed)
               => (~LoopLeft /\ log'[Len(log')].ev = "sleep") ]_vars

\* C15: a status fetch that fails (the GET raises, or the body holds no
\* status) leaves the loop at once with delete_dns_record invoked exactly
\* once; no method outside the polling loop sends its request a second time.
C15_FailedFetchCleansUpAndAborts ==
    [][ /\ (PollStep /\ Polled \in {"get_raised", "no_status"})
             => (LoopLeft /\ Deletes(log') = 1)
        /\ (pc = "idle" /\ pc' = "idle")
             => \A i, j \in DOMAIN log' :
                    (i # j /\ IsRequest(log'[i]) /\ IsRequest(log'[j]))
                        => log'[i].url # log'[j].url ]_vars

\* The method that ran last is make_signed_acme_request called by the user.
SignedCall ==
    /\ exchange.step = "make_signed_acme_request"
    /\ exchange.payload = "json"
SentinelCall ==
    /\ exchange.step = "make_signed_acme_request"
    /\ exchange.payload \in Sentinels

\* C16: for a payload that is no sentinel, make_signed_acme_request fetches
\* one nonce, builds the header, signs, serializes the envelope and sends
\* exactly one POST to the URL, in that order, and the POST carries
\* Content-Type: application/jose+json.
C16_SignedPostIsJoseJson ==
    SignedCall =>
        /\ [i \in DOMAIN log |-> log[i].ev] =
               <<"get_nonce", "get_acme_header", "sign_message", "json.dumps", "POST">>
        /\ FetchedJustBefore(log)
        /\ log[Len(log)].url = exchange.url
        /\ log[Len(log)].ctype = "application/jose+json"

\* C17: a request made with the payload GET_CHALLENGE or GET_CERTIFICATE (by
\* the user, by get_challenge or by get_certificate) is one plain GET of the
\* URL and nothing else: no nonce fetch, no header, no signature, no POST.
C17_SentinelIsPlainGet ==
    (pc = "idle"
       /\ (SentinelCall \/ exchange.step \in {"get_challenge", "get_certificate"}))
        => log = <<Ev("GET", exchange.url)>>

\* Both sentinels have been used, after a signed request of the same client.
C17_Witness ==
    /\ SentinelCall
    /\ exchange.payload = "GET_CERTIFICATE"
    /\ log = <<Ev("GET", exchange.url)>>
    /\ sentNonces # <<>>
    /\ nonce = Len(sentNonces) + thumbprintCalls

IsChainGet(e) == e.ev = "GET" /\ e.url = "chain"
IsDirectoryGet(e) == e.ev = "GET" /\ e.url = "directory"
Constructed == client # "ready" /\ client' = "ready"

\* What get_certificate is to return: the PEM block of the body, then the
\* chain.
PemWithChain(chain) == <<"pem_certificate", chain>>

Constructing == client # "ready" /\ exchange'.step = "__init__"

\* C19: the constructor makes one GET of the directory and fails unless the
\* status is 200 or 201 and the body holds all six keys; once the client is
\* constructed no step changes the endpoints.
C19_DirectoryResolvedOnce ==
    [][ /\ Constructing =>
              /\ Len(SelectSeq(log', IsDirectoryGet)) = 1
              /\ (exchange'.status \notin {200, 201}
                    \/ exchange'.keys # RequiredKeys)
                   => (client' = "failed"
                       /\ result' \in {"ValueError", "KeyError"}
                       /\ endpoints' = NoEndpoints)
              /\ client' = "ready"
                   => \A k \in RequiredKeys : endpoints'[k] = k
        /\ client = "ready" => endpoints' = endpoints ]_vars

\* The directory answered 200 with one key missing, and construction failed.
C19_Witness ==
    /\ exchange.step = "__init__"
    /\ exchange.status = 200
    /\ exchange.keys = RequiredKeys \ {"keyChange"}
    /\ client = "failed"
    /\ result = "KeyError"
    /\ Len(SelectSeq(log, IsRequest)) = 1

\* C20: get_certificate makes one plain GET of the certificate URL; answered
\* any status but 200 it raises and returns nothing; answered 200 it returns
\* the body as a PEM certificate block with the cached chain right after it.
C20_CertificateIsPemPlusChain ==
    (exchange.step = "get_certificate" /\ pc = "idle") =>
        /\ log = <<Ev("GET", exchange.url)>>
        /\ IF exchange.status # 200 THEN MethodRaised /\ ret = <<>>
           ELSE result = "return" /\ ret = PemWithChain(certificate_chain)

\* This step starts a run of cert()/renew() on an instance whose last call
\* was a run of cert()/renew().
NextRunStarts == Workflow /\ Ended /\ pc' = "wf_register"

\* C21: a run of cert()/renew() that follows another run on the same
\* instance works with a certificate key and a CSR that differ from those of
\* the run before.
C21_FreshCertificateKeyPerRun ==
    [][ NextRunStarts => (certificate_key' # certificate_key /\ csr' # csr) ]_vars

Polling == pc \in {"poll", "wf_poll"}

DeletesOf(l, value) ==
    Len(SelectSeq(l, LAMBDA e : IsDelete(e) /\ e.url = "domain_name"
                                           /\ e.value = value))

\* In l every delete_dns_record comes after a create_dns_record of the same
\* domain and value.
DeleteFollowsCreate(l) ==
    \A i \in DOMAIN l :
        IsDelete(l[i]) =>
            \E j \in 1..(i - 1) :
                IsCreate(l[j]) /\ l[j].url = l[i].url /\ l[j].value = l[i].value

IsProvisioningOrLater(e) ==
    \/ IsCreate(e) \/ IsDelete(e)
    \/ e.ev = "POST" /\ e.url \in {FinalizeUrl, ChallengeUrl}
    \/ e.ev = "GET" /\ e.url = CertificateUrl

\* C24: a run of cert()/renew() that ends with acme_register,
\* apply_for_cert_issuance or get_challenge raising has invoked neither
\* create_dns_record nor delete_dns_record and has sent no finalize,
\* challenge-response or certificate request.
C24_EarlyFailureTouchesNothing ==
    (Workflow /\ Ended /\ MethodRaised
       /\ exchange.step \in {"acme_register", "apply_for_cert_issuance",
                             "get_challenge"})
        => ~Has(log, IsProvisioningOrLater)

\* A run has registered and then failed on a refused order.
C24_Witness ==
    /\ Workflow /\ Ended
    /\ exchange.step = "apply_for_cert_issuance"
    /\ exchange.status = 403
    /\ result = "ValueError"
    /\ Has(log, IsAccountPost)
    /\ ~Has(log, IsProvisioningOrLater)

====
